---- MODULE Spec2Model ----
(***************************************************************************)
(* A model of fractal/notify: the notifier's message queue (noteChan), the *)
(* submission protocol (send / route), the consumer loop (Run / log), the  *)
(* shutdown handshake (Exit) and the code table (SetCodes).                *)
(*                                                                         *)
(* Threads are the goroutines of a client program: producers calling the   *)
(* closures made by Sender and Failure, one goroutine calling Run, one     *)
(* calling Exit and one calling SetCodes.  An asynchronous send starts a   *)
(* further goroutine per call; these are the entries of `routes` whose     *)
(* caller is None.                                                         *)
(***************************************************************************)
EXTENDS Integers, Sequences, FiniteSets, TLC

\* ------------------------------------------------------------------ bounds
MaxSends == 2        \* calls of a Sender/Failure closure per producer
MaxCap == 2          \* notifierCap, the capacity of noteChan
MaxRuns == 2         \* calls of Run
MaxExits == 2        \* calls of Exit
MaxSetCodes == 2     \* calls of SetCodes
MaxEntries == 3      \* entries of a map given to SetCodes
MaxRefs == 2         \* endpoint references given to NewNotifier

\* ------------------------------------------------------------- vocabulary
None == "none"
Stdout == "os.Stdout"
Producers == {"p1", "p2"}
Threads == Producers \cup {"run", "exit", "exit2", "cfg"}

\* A value handed to send: a string, an errors.error, a notification or
\* anything else (kind "other").  All values carry the same fields.
Value(k, c, m) == [kind |-> k, code |-> c, message |-> m]
StrV(m) == Value("string", 0, m)
ErrV(m) == Value("error", 0, m)
OtherV == Value("other", 0, "")
NoError == Value("nil", 0, "")

ExitMessage == "Note channel has been closed. Exiting notifier loop."
UnknownValueMessage == "Unknown value used in notify.send"
UnknownCodeMessage == "Unknown error code used"

\* newf: a notification; a negative code becomes 1.
newfKeep(code, message) == Value("notification", code, message)
newfBelowOne(code, message) ==
    Value("notification", IF code < 1 THEN 1 ELSE code, message)
newf(code, message) ==
    Value("notification", IF code < 0 THEN 1 ELSE code, message)

\* The built-in code table.  The HTTP status entries 100..511 of the source
\* all have the same shape and are represented by 404.
standardCodes ==
    (0 :> <<"MSG", "GeneralMessage">>) @@
    (1 :> <<"ERR", "GeneralError">>) @@
    (2 :> <<"ERR", "ConfigurationError">>) @@
    (3 :> <<"ERR", "FailedAction">>) @@
    (4 :> <<"ERR", "UserError">>) @@
    (10 :> <<"ERR", "CatastrophicFailure">>) @@
    (404 :> <<"ERR", "HTTP-StatusNotFound">>) @@
    (999 :> <<"ERR", "ShouldNeverHappen">>)

sysCodes == {0, 1, 999}

\* What the producers of one run pass to the closure made by Sender and, as
\* (code, message), to the one made by Failure: one of these menus.
Menus ==
    {[sender |-> {StrV("hello")}, failure |-> {<<3, "boom">>}],
     [sender |-> {ErrV("oops")}, failure |-> {}],
     [sender |-> {OtherV}, failure |-> {}]}
\* The menu of a run whose notifications carry a code the table lacks.
UnknownMenu == [sender |-> {}, failure |-> {<<1000, "nocode">>}]
NoMenu == [sender |-> {}, failure |-> {}]

\* The codes a map given to SetCodes may hold, and the entry the k-th call
\* gives each of its codes.
InputCodes == {-1, 0, 1, 2, 998, 999, 1000}
CustomEntry(k) == <<"WRN", IF k = 1 THEN "first" ELSE "later">>
CodeMaps(k) ==
    UNION {[D -> {CustomEntry(k)}] :
             D \in {E \in SUBSET InputCodes : Cardinality(E) <= MaxEntries}}

VARIABLES
    files,              \* the endpoint references NewNotifier was given
    menu,               \* the values the producers of this run use
    logAll,             \* notifier.logAll
    async,              \* notifier.async
    notifierCap,        \* cap(noteChan)
    noteChan,           \* the notes buffered in noteChan
    chanClosed,         \* close(noteChan) has happened
    halt,               \* ops.halt
    running,            \* ops.running
    opsOwner,           \* the thread that called ops.Lock and has not unlocked
    endpointsLock,      \* the thread holding endpoints.Mutex
    endpointsPtr,       \* endpoints.endpointsPtr
    fileClosed,         \* the files Close was called on
    written,            \* per file, the log entries written to it
    notificationCodes,  \* notifier.notificationCodes
    safetySwitch,       \* notifier.safetySwitch
    routes,             \* the calls of route in progress
    pc,                 \* where each thread is
    cur,                \* the note Run has received and not finished
    ret,                \* per thread, what its last call returned
    calls,              \* per thread, the calls it has made
    received,           \* ids of the notes Run received, in order
    accepted,           \* ids of the notes put on noteChan, in order
    preRun,             \* ids put on noteChan before Run was first called
    warned,             \* ids whose sender printed "cannot send to a closed channel"
    confirmed,          \* confirmation channels a value was received from
    newCodes,           \* the map given to SetCodes, as SetCodes has left it
    givenCodes,         \* the map as it was given to the last call of SetCodes
    ranged,             \* the codes SetCodes' range loop has come to
    fails,              \* SetCodes' counter of rejected entries
    late,               \* the last call of SetCodes came after Run had set running
    started,            \* Run has set running at some time
    scenario,           \* Exit was called when p1 had made two calls, both had
                        \* returned, and no other producer had made any
    panicked            \* the process died of a panic

vars == <<files, menu, logAll, async, notifierCap, noteChan, chanClosed, halt, running,
          opsOwner, endpointsLock, endpointsPtr, fileClosed, written,
          notificationCodes, safetySwitch, routes, pc, cur, ret, calls,
          received, accepted, preRun, warned, confirmed, newCodes, givenCodes,
          ranged, fails, late, started,
          scenario, panicked>>

\* What NewNotifier fixes for the notifier's life.
settings == <<files, menu, logAll, async, notifierCap, endpointsPtr>>
\* The settings, and what only a call of Exit records.
config == <<settings, scenario, started>>
\* The code table and what SetCodes keeps.
codes == <<notificationCodes, safetySwitch, newCodes, givenCodes, ranged,
          fails, late>>

\* --------------------------------------------------------------- helpers
Unset == [kind |-> "unset", code |-> 0, message |-> ""]
NoNote == [id |-> <<None, 0, None>>, Sender |-> None, Value |-> NoError, Confirm |-> None]

\* Readers of ops.RWMutex: the route calls between RLock and RUnlock.
Readers == {r \in routes : r.st \in {"in", "reject"}}

\* sync.RWMutex.RLock succeeds when no writer holds or waits for the lock.
CanRLock == opsOwner = None
\* sync.RWMutex.Lock, taken at once ...
CanLockPastReaders(t) == opsOwner \in {None, t}
CanLock(t) == opsOwner \in {None, t} /\ Readers = {}
\* ... or announced, to be taken when the readers have left.
MustWaitLock == opsOwner = None /\ Readers # {}

\* send's return value: the value itself when it is an error.
sendRet(value) ==
    IF value.kind \in {"error", "notification"} THEN value ELSE NoError

\* The note route builds from its arguments.
Note(r) == [id |-> r.id, Sender |-> r.sender, Value |-> r.value, Confirm |-> r.confirm]

\* A thread's pc and return value when the route call r it waits for returns.
Resume(r) ==
    /\ pc' = IF r.caller = None THEN pc ELSE [pc EXCEPT ![r.caller] = r.next]
    /\ ret' = IF r.caller = None THEN ret
              ELSE [ret EXCEPT ![r.caller] = sendRet(r.value)]

\* ------------------------------------------------------------ send, route
\* route's test of (*ops).halt.
neverHalted == FALSE
halted == halt

\* noteChan <- n, and n = <-noteChan: the channel is first in, first out.
chanSendFront(q, n) == <<n>> \o q
chanSend(q, n) == Append(q, n)
chanRecvLast(q) == [n |-> q[Len(q)], rest |-> SubSeq(q, 1, Len(q) - 1)]
chanRecv(q) == [n |-> Head(q), rest |-> Tail(q)]

\* send without the go statement: the caller runs route whatever async is.
sendInline(caller, id, sender, value, confirm, next) ==
    /\ routes' = routes \cup
         {[id |-> id, sender |-> sender, value |-> value, confirm |-> confirm,
           caller |-> caller, next |-> next, st |-> "start"]}
    /\ pc' = [pc EXCEPT ![caller] = "send_wait"]
    /\ ret' = [ret EXCEPT ![caller] = Unset]

\* send: route is run by the caller, or by a goroutine of its own when async.
\* A synchronous caller goes on at `next` once route has returned, an
\* asynchronous one at once; either way send returns sendRet(value).
send(caller, id, sender, value, confirm, next) ==
    /\ routes' = routes \cup
         {[id |-> id, sender |-> sender, value |-> value, confirm |-> confirm,
           caller |-> IF async THEN None ELSE caller, next |-> next,
           st |-> "start"]}
    /\ pc' = [pc EXCEPT ![caller] = IF async THEN next ELSE "send_wait"]
    /\ ret' = [ret EXCEPT ![caller] = IF async THEN sendRet(value) ELSE Unset]

\* route, halt is false: ops.RLock(); noteChan <- &note{...}; ops.RUnlock().
\* RLock blocks while a writer holds or waits for ops.  The send needs room in
\* noteChan and panics when noteChan is closed.  A route call that was blocked
\* on the full noteChan has the read lock already (st = "in").
RouteAccept(r) ==
    /\ ~panicked
    /\ r.st = "in" \/ (r.st = "start" /\ CanRLock)
    /\ ~halted
    /\ IF chanClosed
       THEN /\ panicked' = TRUE
            /\ UNCHANGED <<noteChan, accepted, preRun, routes, pc, ret>>
       ELSE /\ Len(noteChan) < notifierCap
            /\ noteChan' = chanSend(noteChan, Note(r))
            /\ accepted' = Append(accepted, r.id)
            /\ preRun' = IF calls["run"] = 0 THEN preRun \cup {r.id} ELSE preRun
            /\ routes' = routes \ {r}
            /\ Resume(r)
            /\ UNCHANGED panicked
    /\ UNCHANGED <<config, codes, chanClosed, halt, running, opsOwner,
                   endpointsLock, fileClosed, written, cur, calls, received,
                   warned, confirmed>>

\* route, halt is false and noteChan is full: the send blocks, the read lock
\* held.
RouteBlock(r) ==
    /\ ~panicked
    /\ r.st = "start"
    /\ CanRLock
    /\ ~halted
    /\ ~chanClosed
    /\ Len(noteChan) >= notifierCap
    /\ routes' = (routes \ {r}) \cup {[r EXCEPT !.st = "in"]}
    /\ UNCHANGED <<config, codes, noteChan, chanClosed, halt, running,
                   opsOwner, endpointsLock, fileClosed, written, pc, cur,
                   ret, calls, received, accepted, preRun, warned, confirmed,
                   panicked>>

\* route, halt is true: confirm <- true.  The note is not put on noteChan.
\* Every caller of send passes a nil confirm (Sender, Failure, noteToSelf),
\* and a send on a nil channel blocks forever: the call stays here, the read
\* lock held, and the syswarn and the RUnlock after it are never reached.
RouteReject(r) ==
    /\ ~panicked
    /\ r.st = "start"
    /\ CanRLock
    /\ halted
    /\ routes' = (routes \ {r}) \cup {[r EXCEPT !.st = "reject"]}
    /\ UNCHANGED <<config, codes, noteChan, chanClosed, halt, running,
                   opsOwner, endpointsLock, fileClosed, written, pc, cur,
                   ret, calls, received, accepted, preRun, warned, confirmed,
                   panicked>>

\* ----------------------------------------------------- Sender and Failure
\* The calls a producer makes: p1 up to MaxSends, every other producer one.
Budget(p) == IF p = "p1" THEN MaxSends ELSE 1

\* The closure made by Sender(p): send(p, value, nil, ...).
SenderCall(p) ==
    /\ ~panicked
    /\ pc[p] = "idle"
    /\ calls[p] < Budget(p)
    /\ \E v \in menu.sender :
         send(p, <<p, calls[p] + 1, "call">>, p, v, None, "idle")
    /\ calls' = [calls EXCEPT ![p] = @ + 1]
    /\ UNCHANGED <<config, codes, noteChan, chanClosed, halt, running,
                   opsOwner, endpointsLock, fileClosed, written, cur,
                   received, accepted, preRun, warned, confirmed, panicked>>

\* The closure made by Failure(p): send(p, newf(code, format), nil, ...).
FailureCall(p) ==
    /\ ~panicked
    /\ pc[p] = "idle"
    /\ calls[p] < Budget(p)
    /\ \E a \in menu.failure :
         send(p, <<p, calls[p] + 1, "call">>, p, newf(a[1], a[2]), None, "idle")
    /\ calls' = [calls EXCEPT ![p] = @ + 1]
    /\ UNCHANGED <<config, codes, noteChan, chanClosed, halt, running,
                   opsOwner, endpointsLock, fileClosed, written, cur,
                   received, accepted, preRun, warned, confirmed, panicked>>

\* ------------------------------------------------------------- isOK, log
\* isOK: the system codes are in the code table (it panics otherwise).
alwaysOK == TRUE
isOK == sysCodes \subseteq DOMAIN notificationCodes

\* log's switch on the value: the code the entry is written with.
logCodeGeneric(n) ==
    CASE n.Value.kind = "notification" ->
           IF n.Value.code \in DOMAIN notificationCodes THEN n.Value.code ELSE 1
      [] n.Value.kind = "string" -> 0
      [] OTHER -> 1
logCode(n) ==
    CASE n.Value.kind = "notification" ->
           IF n.Value.code \in DOMAIN notificationCodes THEN n.Value.code ELSE 1
      [] n.Value.kind = "error" -> 1
      [] n.Value.kind = "string" -> 0
      [] OTHER -> 999

logMessage(n) ==
    IF n.Value.kind \in {"notification", "error", "string"}
    THEN n.Value.message ELSE UnknownValueMessage

\* The logEntry log builds (the timestamp, service and instance left out).
logEntry(n) ==
    [id |-> n.id, Sender |-> n.Sender,
     Level |-> notificationCodes[logCode(n)][1], Code |-> logCode(n),
     Status |-> notificationCodes[logCode(n)][2], Message |-> logMessage(n)]

\* log reports a notification whose code is not in the table to itself.
EveryCodeKnown(n) == FALSE
UnknownCode(n) ==
    n.Value.kind = "notification" /\ n.Value.code \notin DOMAIN notificationCodes

Files == {endpointsPtr[i] : i \in 1..Len(endpointsPtr)}

\* WriteString on every endpoint; it fails on a closed file.
WriteFirst(w, n) ==
    [f \in DOMAIN w |->
       IF f = endpointsPtr[1] /\ f \notin fileClosed
       THEN Append(w[f], logEntry(n)) ELSE w[f]]
WriteAll(w, n) ==
    [f \in DOMAIN w |->
       IF f \in Files /\ f \notin fileClosed THEN Append(w[f], logEntry(n)) ELSE w[f]]

\* -------------------------------------------------------------------- Run
\* Run: isOK(), then ops.Lock() called while route calls hold the read lock:
\* the writer waits, and new readers wait behind it.
RunLockWait ==
    /\ ~panicked
    /\ pc["run"] \in {"idle", "returned"}
    /\ calls["run"] < MaxRuns
    /\ isOK
    /\ MustWaitLock
    /\ opsOwner' = "run"
    /\ calls' = [calls EXCEPT !["run"] = @ + 1]
    /\ pc' = [pc EXCEPT !["run"] = "run_lock"]
    /\ UNCHANGED <<config, codes, noteChan, chanClosed, halt, running,
                   endpointsLock, fileClosed, written, routes, cur, ret,
                   received, accepted, preRun, warned, confirmed, panicked>>

\* Run: isOK(); ops.Lock(); halt = false; running = true; ops.Unlock()
RunStart ==
    /\ ~panicked
    /\ \/ /\ pc["run"] \in {"idle", "returned"}
          /\ calls["run"] < MaxRuns
          /\ isOK
          /\ calls' = [calls EXCEPT !["run"] = @ + 1]
       \/ /\ pc["run"] = "run_lock"
          /\ UNCHANGED calls
    /\ CanLock("run")
    /\ halt' = FALSE
    /\ running' = TRUE
    /\ started' = TRUE
    /\ opsOwner' = None
    /\ pc' = [pc EXCEPT !["run"] = "run_endpoints"]
    /\ UNCHANGED <<settings, scenario, codes, noteChan, chanClosed, endpointsLock,
                   fileClosed, written, routes, cur, ret, received, accepted,
                   preRun, warned, confirmed, panicked>>

\* endpoints.Lock()
RunEndpointsLock ==
    /\ ~panicked
    /\ pc["run"] = "run_endpoints"
    /\ endpointsLock = None
    /\ endpointsLock' = "run"
    /\ pc' = [pc EXCEPT !["run"] = "run_recv"]
    /\ UNCHANGED <<config, codes, noteChan, chanClosed, halt, running,
                   opsOwner, fileClosed, written, routes, cur, ret, calls,
                   received, accepted, preRun, warned, confirmed, panicked>>

\* Run's switch: a string is handed to log only when logAll is set.
LoggedAll(n) == TRUE
Logged(n) == n.Value.kind # "string" \/ logAll

\* n, ok = <-noteChan with ok true, the switch on the value's type, and log(n)
\* up to the point where it may block: the noteToSelf for an unknown code, or
\* the deferred confirmation.
RunRecv ==
    /\ ~panicked
    /\ pc["run"] = "run_recv"
    /\ noteChan # <<>>
    /\ noteChan' = chanRecv(noteChan).rest
    /\ received' = Append(received, chanRecv(noteChan).n.id)
    /\ LET n == chanRecv(noteChan).n IN
       CASE ~Logged(n) ->
              UNCHANGED <<pc, cur, written, panicked>>
         [] Logged(n) /\ ~isOK ->
              panicked' = TRUE /\ UNCHANGED <<pc, cur, written>>
         [] Logged(n) /\ isOK /\ UnknownCode(n) ->
              /\ cur' = n
              /\ pc' = [pc EXCEPT !["run"] = "log"]
              /\ UNCHANGED <<written, panicked>>
         [] OTHER ->
              /\ written' = WriteAll(written, n)
              /\ cur' = IF n.Confirm = None THEN NoNote ELSE n
              /\ pc' = [pc EXCEPT !["run"] =
                          IF n.Confirm = None THEN "run_recv" ELSE "log_confirm"]
              /\ UNCHANGED panicked
    /\ UNCHANGED <<config, codes, chanClosed, halt, running, opsOwner,
                   endpointsLock, fileClosed, routes, ret, calls, accepted,
                   preRun, warned, confirmed>>

\* n, ok = <-noteChan with ok false: endpoints.Unlock(); break runLoop
RunClosed ==
    /\ ~panicked
    /\ pc["run"] = "run_recv"
    /\ noteChan = <<>>
    /\ chanClosed
    /\ endpointsLock' = None
    /\ pc' = [pc EXCEPT !["run"] = "returned"]
    /\ UNCHANGED <<config, codes, noteChan, chanClosed, halt, running,
                   opsOwner, fileClosed, written, routes, cur, ret, calls,
                   received, accepted, preRun, warned, confirmed, panicked>>

\* log, a notification with an unknown code: noteToSelf(newf(999, ...)), which
\* is send("notifier", value, nil, ...).
LogNoteToSelf ==
    /\ ~panicked
    /\ pc["run"] = "log"
    /\ send("run", <<cur.id[1], cur.id[2], "self">>, "notifier",
            newf(999, UnknownCodeMessage), None, "log_write")
    /\ UNCHANGED <<config, codes, noteChan, chanClosed, halt, running,
                   opsOwner, endpointsLock, fileClosed, written, cur, calls,
                   received, accepted, preRun, warned, confirmed, panicked>>

\* log, after noteToSelf: the entry, and WriteString on every endpoint.
LogWrite ==
    /\ ~panicked
    /\ pc["run"] = "log_write"
    /\ written' = WriteAll(written, cur)
    /\ cur' = IF cur.Confirm = None THEN NoNote ELSE cur
    /\ pc' = [pc EXCEPT !["run"] =
                IF cur.Confirm = None THEN "run_recv" ELSE "log_confirm"]
    /\ UNCHANGED <<config, codes, noteChan, chanClosed, halt, running,
                   opsOwner, endpointsLock, fileClosed, routes, ret, calls,
                   received, accepted, preRun, warned, confirmed, panicked>>

\* log's deferred n.Confirm <- true, met by Exit's <-confirm.
LogConfirmBy(t) ==
    /\ ~panicked
    /\ pc["run"] = "log_confirm"
    /\ pc[t] = "exit_wait"
    /\ cur.Confirm = <<t, calls[t], "call">>
    /\ confirmed' = confirmed \cup {cur.Confirm}
    /\ cur' = NoNote
    /\ pc' = [pc EXCEPT !["run"] = "run_recv", ![t] = "exit_close"]
    /\ UNCHANGED <<config, codes, noteChan, chanClosed, halt, running,
                   opsOwner, endpointsLock, fileClosed, written, routes, ret,
                   calls, received, accepted, preRun, warned, panicked>>
LogConfirm == LogConfirmBy("exit")

\* ------------------------------------------------------------------- Exit
ExitError == ErrV("was not running at exit time.")

\* IsReady: ops.running, read under the read lock.
alwaysReady == TRUE
IsReady == running

\* Exit's sentinel.
ExitNoteBy(t) ==
    [id |-> <<t, calls[t], "call">>, Sender |-> "notifier",
     Value |-> StrV(ExitMessage), Confirm |-> <<t, calls[t], "call">>]
ExitNote == ExitNoteBy("exit")

\* Exit, the check: an error is returned unless the notifier is running.
ExitCallBy(t) ==
    /\ ~panicked
    /\ pc[t] = "idle"
    /\ calls[t] < MaxExits
    /\ CanRLock
    /\ calls' = [calls EXCEPT ![t] = @ + 1]
    /\ IF IsReady
       THEN /\ pc' = [pc EXCEPT ![t] = "exit_lock"]
            /\ ret' = [ret EXCEPT ![t] = Unset]
            /\ scenario' = /\ calls["p1"] = 2
                            /\ pc["p1"] = "idle"
                            /\ \A p \in Producers \ {"p1"} : calls[p] = 0
       ELSE /\ ret' = [ret EXCEPT ![t] = ExitError]
            /\ UNCHANGED <<pc, scenario>>
    /\ UNCHANGED <<settings, started, codes, noteChan, chanClosed, halt, running,
                   opsOwner, endpointsLock, fileClosed, written, routes, cur,
                   received, accepted, preRun, warned, confirmed, panicked>>
ExitCall == ExitCallBy("exit")

\* ops.Lock() while route calls hold the read lock.
ExitLockWaitBy(t) ==
    /\ ~panicked
    /\ pc[t] \in {"exit_lock", "exit_status"}
    /\ MustWaitLock
    /\ opsOwner' = t
    /\ UNCHANGED <<config, codes, noteChan, chanClosed, halt, running,
                   endpointsLock, fileClosed, written, routes, pc, cur, ret,
                   calls, received, accepted, preRun, warned, confirmed,
                   panicked>>
ExitLockWait == ExitLockWaitBy("exit")

\* ops.Lock(); halt = true; confirm := make(chan bool); then the send of the
\* sentinel blocks on the full noteChan, the write lock held.
ExitHaltBy(t) ==
    /\ ~panicked
    /\ pc[t] = "exit_lock"
    /\ CanLock(t)
    /\ ~chanClosed
    /\ Len(noteChan) >= notifierCap
    /\ opsOwner' = t
    /\ halt' = TRUE
    /\ pc' = [pc EXCEPT ![t] = "exit_send"]
    /\ UNCHANGED <<config, codes, noteChan, chanClosed, running,
                   endpointsLock, fileClosed, written, routes, cur, ret, calls,
                   received, accepted, preRun, warned, confirmed, panicked>>
ExitHalt == ExitHaltBy("exit")

\* ops.Lock(); halt = true; confirm := make(chan bool);
\* noteChan <- &note{"notifier", ..., confirm}; ops.Unlock().  The send needs
\* room in noteChan and panics when noteChan is closed.
ExitSendNoWait ==
    /\ ~panicked
    /\ pc["exit"] = "exit_send" \/ (pc["exit"] = "exit_lock" /\ CanLock("exit"))
    /\ halt' = TRUE
    /\ IF chanClosed
       THEN /\ panicked' = TRUE
            /\ opsOwner' = "exit"
            /\ UNCHANGED <<noteChan, accepted, pc>>
       ELSE /\ Len(noteChan) < notifierCap
            /\ noteChan' = chanSend(noteChan, ExitNote)
            /\ accepted' = Append(accepted, ExitNote.id)
            /\ opsOwner' = None
            /\ pc' = [pc EXCEPT !["exit"] = "exit_close"]
            /\ UNCHANGED panicked
    /\ UNCHANGED <<config, codes, chanClosed, running, endpointsLock,
                   fileClosed, written, routes, cur, ret, calls, received,
                   preRun, warned, confirmed>>
ExitSendBy(t) ==
    /\ ~panicked
    /\ pc[t] = "exit_send" \/ (pc[t] = "exit_lock" /\ CanLock(t))
    /\ halt' = TRUE
    /\ IF chanClosed
       THEN /\ panicked' = TRUE
            /\ opsOwner' = t
            /\ UNCHANGED <<noteChan, accepted, pc>>
       ELSE /\ Len(noteChan) < notifierCap
            /\ noteChan' = chanSend(noteChan, ExitNoteBy(t))
            /\ accepted' = Append(accepted, ExitNoteBy(t).id)
            /\ opsOwner' = None
            /\ pc' = [pc EXCEPT ![t] = "exit_wait"]
            /\ UNCHANGED panicked
    /\ UNCHANGED <<config, codes, chanClosed, running, endpointsLock,
                   fileClosed, written, routes, cur, ret, calls, received,
                   preRun, warned, confirmed>>
ExitSend == ExitSendBy("exit")

\* close(confirm); close(noteChan)
ExitCloseBy(t) ==
    /\ ~panicked
    /\ pc[t] = "exit_close"
    /\ IF chanClosed
       THEN panicked' = TRUE /\ UNCHANGED <<chanClosed, pc>>
       ELSE /\ chanClosed' = TRUE
            /\ pc' = [pc EXCEPT ![t] = "exit_endpoints"]
            /\ UNCHANGED panicked
    /\ UNCHANGED <<config, codes, noteChan, halt, running, opsOwner,
                   endpointsLock, fileClosed, written, routes, cur, ret, calls,
                   received, accepted, preRun, warned, confirmed>>
ExitClose == ExitCloseBy("exit")

\* endpoints.Lock(); Close() on every endpoint but os.Stdout; endpoints.Unlock()
ExitEndpointsUnlocked ==
    /\ ~panicked
    /\ pc["exit"] = "exit_endpoints"
    /\ fileClosed' = fileClosed \cup (Files \ {Stdout})
    /\ pc' = [pc EXCEPT !["exit"] = "exit_status"]
    /\ UNCHANGED <<config, codes, noteChan, chanClosed, halt, running,
                   opsOwner, endpointsLock, written, routes, cur, ret, calls,
                   received, accepted, preRun, warned, confirmed, panicked>>
ExitEndpointsAll ==
    /\ ~panicked
    /\ pc["exit"] = "exit_endpoints"
    /\ endpointsLock = None
    /\ fileClosed' = fileClosed \cup Files
    /\ pc' = [pc EXCEPT !["exit"] = "exit_status"]
    /\ UNCHANGED <<config, codes, noteChan, chanClosed, halt, running,
                   opsOwner, endpointsLock, written, routes, cur, ret, calls,
                   received, accepted, preRun, warned, confirmed, panicked>>
ExitEndpointsBy(t) ==
    /\ ~panicked
    /\ pc[t] = "exit_endpoints"
    /\ endpointsLock = None
    /\ fileClosed' = fileClosed \cup (Files \ {Stdout})
    /\ pc' = [pc EXCEPT ![t] = "exit_status"]
    /\ UNCHANGED <<config, codes, noteChan, chanClosed, halt, running,
                   opsOwner, endpointsLock, written, routes, cur, ret, calls,
                   received, accepted, preRun, warned, confirmed, panicked>>
ExitEndpoints == ExitEndpointsBy("exit")

\* ops.Lock(); running = false; ops.Unlock(); return nil
ExitStatusBy(t) ==
    /\ ~panicked
    /\ pc[t] = "exit_status"
    /\ CanLock(t)
    /\ running' = FALSE
    /\ opsOwner' = None
    /\ ret' = [ret EXCEPT ![t] = NoError]
    /\ pc' = [pc EXCEPT ![t] = "idle"]
    /\ UNCHANGED <<config, codes, noteChan, chanClosed, halt, endpointsLock,
                   fileClosed, written, routes, cur, calls, received, accepted,
                   preRun, warned, confirmed, panicked>>
ExitStatus == ExitStatusBy("exit")

\* --------------------------------------------------------------- SetCodes
RunningMessage == "Cannot change codes on a running notifier"
AgainMessage == "You are trying to change notification codes again. This action is not permitted."
RemovingMessage == "Only notification codes 1 < code < 999 are replaceable. Removing"
FailedMessage(n) ==
    "Failed replacing " \o ToString(n) \o " status codes: invalid range"

\* The test of SetCodes' loop: the code may be replaced.
ReplaceableInclusive(code) == ~(code < 1 \/ code > 999)
Replaceable(code) == ~(code <= 1 \/ code >= 999)

\* The entry SetCodes' loop is at: noteToSelf was called for it, and it is
\* not deleted yet.
Removing == {c \in ranged \cap DOMAIN newCodes : ~Replaceable(c)}

\* SetCodes up to the loop: the sanity check, the running check (IsReady takes
\* the read lock) and the single-shot switch.
SetCodesCall ==
    /\ ~panicked
    /\ pc["cfg"] = "idle"
    /\ calls["cfg"] < MaxSetCodes
    /\ calls' = [calls EXCEPT !["cfg"] = @ + 1]
    /\ late' = started
    /\ IF ~isOK
       THEN /\ panicked' = TRUE
            /\ UNCHANGED <<safetySwitch, routes, pc, ret, newCodes,
                           givenCodes, ranged, fails>>
       ELSE /\ CanRLock
            /\ UNCHANGED panicked
            /\ IF IsReady
               THEN /\ ret' = [ret EXCEPT !["cfg"] = newf(4, RunningMessage)]
                    /\ UNCHANGED <<safetySwitch, routes, pc, newCodes,
                                   givenCodes, ranged, fails>>
               ELSE IF safetySwitch
               THEN /\ send("cfg", <<"cfg", calls["cfg"] + 1, "again">>,
                            "notifier", newf(999, AgainMessage), None, "idle")
                    /\ UNCHANGED <<safetySwitch, newCodes, givenCodes,
                                   ranged, fails>>
               ELSE /\ \E m \in CodeMaps(calls["cfg"] + 1) :
                         /\ givenCodes' = m
                         /\ newCodes' = m
                    /\ ranged' = {}
                    /\ fails' = 0
                    /\ safetySwitch' = TRUE
                    /\ pc' = [pc EXCEPT !["cfg"] = "sc_range"]
                    /\ ret' = [ret EXCEPT !["cfg"] = Unset]
                    /\ UNCHANGED routes
    /\ UNCHANGED <<config, noteChan, chanClosed, halt, running, opsOwner,
                   endpointsLock, fileClosed, written, notificationCodes, cur,
                   received, accepted, preRun, warned, confirmed>>

\* The loop comes to a replaceable code: notificationCodes[code] = notification
SetCodesReplace ==
    /\ ~panicked
    /\ pc["cfg"] = "sc_range"
    /\ \E c \in DOMAIN newCodes \ ranged :
         /\ Replaceable(c)
         /\ ranged' = ranged \cup {c}
         /\ notificationCodes' =
              [k \in DOMAIN notificationCodes \cup {c} |->
                 IF k = c THEN newCodes[c] ELSE notificationCodes[k]]
    /\ UNCHANGED <<config, noteChan, chanClosed, halt, running, opsOwner,
                   endpointsLock, fileClosed, written, safetySwitch, routes,
                   pc, cur, ret, calls, received, accepted, preRun, warned,
                   confirmed, newCodes, givenCodes, fails, late, panicked>>

\* The loop comes to a code that may not be replaced: noteToSelf(newf(4, ...))
SetCodesNote ==
    /\ ~panicked
    /\ pc["cfg"] = "sc_range"
    /\ \E c \in DOMAIN newCodes \ ranged :
         /\ ~Replaceable(c)
         /\ ranged' = ranged \cup {c}
         /\ send("cfg", <<"cfg", c, "removing">>, "notifier",
                 newf(4, RemovingMessage), None, "sc_delete")
    /\ UNCHANGED <<config, noteChan, chanClosed, halt, running, opsOwner,
                   endpointsLock, fileClosed, written, notificationCodes,
                   safetySwitch, cur, calls, received, accepted, preRun,
                   warned, confirmed, newCodes, givenCodes, fails, late, panicked>>

\* ... delete(newCodes, code); fails++
SetCodesDelete ==
    /\ ~panicked
    /\ pc["cfg"] = "sc_delete"
    /\ newCodes' = [k \in DOMAIN newCodes \ Removing |-> newCodes[k]]
    /\ fails' = fails + 1
    /\ pc' = [pc EXCEPT !["cfg"] = "sc_range"]
    /\ UNCHANGED <<config, noteChan, chanClosed, halt, running, opsOwner,
                   endpointsLock, fileClosed, written, notificationCodes,
                   safetySwitch, routes, cur, ret, calls, received, accepted,
                   preRun, warned, confirmed, givenCodes, ranged, late,
                   panicked>>

\* The loop is over: the error counting the failures, or nil.
SetCodesReturn ==
    /\ ~panicked
    /\ pc["cfg"] = "sc_range"
    /\ DOMAIN newCodes \subseteq ranged
    /\ ret' = [ret EXCEPT !["cfg"] =
                 IF fails > 0 THEN newf(4, FailedMessage(fails)) ELSE NoError]
    /\ pc' = [pc EXCEPT !["cfg"] = "idle"]
    /\ UNCHANGED <<config, codes, noteChan, chanClosed, halt, running,
                   opsOwner, endpointsLock, fileClosed, written, routes, cur,
                   calls, received, accepted, preRun, warned, confirmed,
                   panicked>>

\* ------------------------------------------------------------ NewNotifier
\* An endpoint reference: a *os.File (named by its handle), a string (a path)
\* or a value of any other type.
FileRef(h) == [kind |-> "file", name |-> h]
PathRef(path) == [kind |-> "string", name |-> path]
OtherRef == [kind |-> "other", name |-> ""]

\* The paths os.OpenFile can open for appending; the others are a directory
\* or a file the process may not write.
Openable == {"mylog.log"}

\* openLogFile, called for the i-th reference: a new handle on the file, or
\* os.Stdout with an error.
openLogFile(logfile, i) ==
    IF logfile \in Openable THEN logfile \o "#" \o ToString(i) ELSE Stdout

\* The loop over files: a string is opened and appended (os.Stdout when the
\* open fails), a *os.File is appended, anything else is left out.  No
\* reference at all stands for os.Stdout.
RECURSIVE endpointSliceFrom(_, _)
endpointSliceFrom(refs, i) ==
    IF i > Len(refs) THEN <<>>
    ELSE (CASE refs[i].kind = "string" -> <<openLogFile(refs[i].name, i)>>
            [] refs[i].kind = "file" -> <<refs[i].name>>
            [] OTHER -> <<>>) \o endpointSliceFrom(refs, i + 1)

endpointSlice(refs) ==
    endpointSliceFrom(IF Len(refs) = 0 THEN <<FileRef(Stdout)>> ELSE refs, 1)

\* "Remove duplicates": a handle is appended unless it was seen before.
KeepDuplicates(slice) == slice
RECURSIVE RemoveDuplicates(_)
RemoveDuplicates(slice) ==
    IF slice = <<>> THEN <<>>
    ELSE LET front == RemoveDuplicates(SubSeq(slice, 1, Len(slice) - 1))
             fi == slice[Len(slice)]
         IN IF \E k \in 1..Len(front) : front[k] = fi
            THEN front ELSE Append(front, fi)

\* The notifier NewNotifier returns for the references refs and a noteChan of
\* capacity `capacity`.  An endpoint given as *os.File is taken as it is:
\* `closed` are the files the caller had closed before.
NewNotifierFor(refs, capacity, closed) ==
    /\ files = refs
    /\ notifierCap = capacity
    /\ noteChan = <<>>
    /\ chanClosed = FALSE
    /\ halt = FALSE
    /\ running = FALSE
    /\ opsOwner = None
    /\ endpointsLock = None
    /\ endpointsPtr = RemoveDuplicates(endpointSlice(refs))
    /\ fileClosed = closed
    /\ written = [f \in {endpointsPtr[i] : i \in 1..Len(endpointsPtr)} \cup {Stdout}
                    |-> <<>>]
    /\ notificationCodes = standardCodes
    /\ safetySwitch = FALSE
    /\ routes = {}
    /\ pc = [t \in Threads |-> "idle"]
    /\ cur = NoNote
    /\ ret = [t \in Threads |-> Unset]
    /\ calls = [t \in Threads |-> 0]
    /\ received = <<>>
    /\ accepted = <<>>
    /\ preRun = {}
    /\ warned = {}
    /\ confirmed = {}
    /\ newCodes = << >>
    /\ givenCodes = << >>
    /\ ranged = {}
    /\ fails = 0
    /\ late = FALSE
    /\ started = FALSE
    /\ scenario = FALSE
    /\ panicked = FALSE

\* The notifier of the files "notify.log" and os.Stdout, both given as
\* *os.File.
NewNotifierWith(capacity, closed) ==
    NewNotifierFor(<<FileRef("notify.log"), FileRef(Stdout)>>, capacity, closed)

NewNotifierOn(closed) == NewNotifierWith(MaxCap, closed)

NewNotifier == NewNotifierOn({})

\* A program of producers, Run and Exit on a notifier of any configuration.
Init ==
    /\ menu \in Menus
    /\ logAll \in BOOLEAN
    /\ async \in BOOLEAN
    /\ NewNotifier

Produce ==
    \/ \E p \in Producers : SenderCall(p)
    \/ \E p \in Producers : FailureCall(p)

Route ==
    \/ \E r \in routes : RouteAccept(r)
    \/ \E r \in routes : RouteBlock(r)
    \/ \E r \in routes : RouteReject(r)

Run ==
    \/ RunLockWait
    \/ RunStart
    \/ RunEndpointsLock
    \/ RunRecv
    \/ RunClosed
    \/ LogConfirm

Exit ==
    \/ ExitCall
    \/ ExitLockWait
    \/ ExitHalt
    \/ ExitSend
    \/ ExitClose
    \/ ExitEndpoints
    \/ ExitStatus

SetCodes ==
    \/ SetCodesCall
    \/ SetCodesReplace
    \/ SetCodesNote
    \/ SetCodesDelete
    \/ SetCodesReturn

Next == Produce \/ Route \/ Run \/ Exit

Spec == Init /\ [][Next]_vars

\* The same program, every goroutine that can take a step getting to take one.
FairSpec == Spec /\ WF_vars(Next)

\* A program that calls SetCodes and Run, and never Exit, on a logAll notifier.
InitCodes ==
    /\ menu = NoMenu
    /\ logAll = TRUE
    /\ async \in BOOLEAN
    /\ NewNotifier

Enqueue ==
    \/ \E r \in routes : RouteAccept(r)
    \/ \E r \in routes : RouteBlock(r)

Consume ==
    \/ RunLockWait
    \/ RunStart
    \/ RunEndpointsLock
    \/ RunRecv

NextCodes == SetCodes \/ Enqueue \/ Consume

SpecCodes == InitCodes /\ [][NextCodes]_vars

\* A program that calls SetCodes, Run and Exit, on a logAll notifier.
NextLife == SetCodes \/ Route \/ Run \/ Exit

SpecLife == InitCodes /\ [][NextLife]_vars

\* A program of producers of errors, Run and Exit on a logAll notifier some
\* of whose endpoints fail every write.
InitBroken ==
    /\ menu = [sender |-> {ErrV("oops")}, failure |-> {}]
    /\ logAll = TRUE
    /\ async \in BOOLEAN
    /\ \E closed \in SUBSET {"notify.log", Stdout} : NewNotifierOn(closed)

NextBroken == (\E p \in Producers : SenderCall(p)) \/ Route \/ Run \/ Exit

SpecBroken == InitBroken /\ [][NextBroken]_vars

\* A program whose producer p1 fails with a code the table lacks, so that log
\* reports to itself, on a notifier of any capacity up to MaxCap.
InitUnknown ==
    /\ menu = UnknownMenu
    /\ logAll \in BOOLEAN
    /\ async \in BOOLEAN
    /\ \E capacity \in 1..MaxCap : NewNotifierWith(capacity, {})

NextUnknown ==
    \/ FailureCall("p1")
    \/ Route
    \/ Run
    \/ LogNoteToSelf
    \/ LogWrite
    \/ Exit

SpecUnknown == InitUnknown /\ [][NextUnknown]_vars

\* ----------------------------------------------------------- properties
\* Exit has returned nil.
ExitDone == pc["exit"] = "idle" /\ ret["exit"] = NoError

\* The id of the sentinel of the k-th call of Exit.
Sentinel(k) == <<"exit", k, "call">>

\* How often the record id was written to the file f.
TimesWritten(f, id) ==
    Cardinality({i \in 1..Len(written[f]) : written[f][i].id = id})

\* The ids of a file's entries, in order.
WrittenIds(f) == [i \in 1..Len(written[f]) |-> written[f][i].id]

\* The sender, code and message of an entry.
Line(e) == <<e.Sender, e.Code, e.Message>>

\* The records of one producer's calls come in the order of the calls.
InOrder(ids) ==
    \A i, j \in 1..Len(ids) :
        (i < j /\ ids[i][1] = ids[j][1] /\ ids[i][3] = "call" /\ ids[j][3] = "call")
            => ids[i][2] < ids[j][2]

\* C1: once Exit has returned nil, every record that was put on noteChan
\* before Run was called, and Exit's sentinel, is written to every endpoint
\* exactly once.
C1_BacklogWrittenOnce ==
    ExitDone =>
        \A f \in Files : \A id \in preRun \cup {Sentinel(calls["exit"])} :
            TimesWritten(f, id) = 1

\* C1 happens: a synchronous notifier, as many records as noteChan holds put
\* on it before Run, Exit returned, and all of them in the log file.
C1_Witness ==
    /\ ExitDone
    /\ ~async
    /\ Cardinality(preRun) = notifierCap
    /\ \A id \in preRun : TimesWritten("notify.log", id) = 1
    /\ TimesWritten("notify.log", Sentinel(calls["exit"])) = 1

\* C2: a call of Exit that found the notifier running returns, and returns
\* nil, whatever logAll and async are.
C2_ExitReturns ==
    (pc["exit"] = "exit_lock") ~> ExitDone

\* C3: when Exit has returned nil, noteChan is empty and Run has received
\* every record that was ever put on it.
C3_QueueFlushed ==
    ExitDone => (noteChan = <<>> /\ received = accepted)

\* C3 happens: Exit returned with a backlog from before Run received.
C3_Witness ==
    /\ ExitDone
    /\ preRun # {}
    /\ Len(received) > Cardinality(preRun)
    /\ \A id \in preRun : \E i \in 1..Len(received) : received[i] = id

\* C4: a call of Exit on a notifier that is not running returns the error
\* and leaves noteChan, halt, the closing of noteChan, the endpoints and the
\* running flag as they are; no sentinel is put on noteChan.
C4_ExitNotRunning ==
    [][(calls'["exit"] # calls["exit"] /\ ~running) =>
          /\ ret'["exit"] = ExitError
          /\ pc'["exit"] = "idle"
          /\ UNCHANGED <<noteChan, accepted, halt, chanClosed, fileClosed,
                         running, opsOwner, written>>]_vars

\* C4 happens: Exit returned the error with a backlog on noteChan, Run never
\* called.
C4_Witness ==
    /\ ret["exit"] = ExitError
    /\ calls["run"] = 0
    /\ noteChan # <<>>
    /\ ~halt /\ ~chanClosed /\ fileClosed = {}

\* C5: in a step that ends with halt set, the only record put on noteChan is
\* Exit's sentinel.
C5_OnlySentinelAfterHalt ==
    [][halt' =>
          \A i \in (Len(accepted) + 1)..Len(accepted') :
              accepted'[i] = Sentinel(calls["exit"])]_vars

\* C5 happens: with halt set and the sentinel on noteChan, a call of route
\* found halt set and its record is not on noteChan.
C5_Witness ==
    /\ halt
    /\ accepted # <<>>
    /\ accepted[Len(accepted)] = Sentinel(calls["exit"])
    /\ \E r \in routes :
         /\ r.st = "reject"
         /\ \A i \in 1..Len(accepted) : accepted[i] # r.id

\* C6: a call of route that finds halt set does not stay at the send on
\* confirm: without a confirmation channel too it warns and returns, so that
\* its synchronous caller gets send's return value.
C6_RejectedRouteReturns ==
    \A r \in routes : ~(r.st = "reject" /\ r.confirm = None)

\* C7: on a synchronous notifier the records of one producer are received by
\* Run, and written to every endpoint, in the order of the producer's calls.
C7_FifoPerProducer ==
    ~async => (InOrder(received) /\ \A f \in Files : InOrder(WrittenIds(f)))

\* C7 happens: two records of p1 received and written, one of p2 in between.
C7_Witness ==
    /\ ~async
    /\ Len(received) >= 3
    /\ received[1] = <<"p1", 1, "call">>
    /\ received[2] = <<"p2", 1, "call">>
    /\ received[3] = <<"p1", 2, "call">>
    /\ Len(written[Stdout]) >= 3
    /\ written[Stdout][3].id = <<"p1", 2, "call">>

\* The sentinel is the last record put on noteChan and the last one written.
SentinelLast ==
    /\ \A i \in 1..Len(accepted) : accepted[i][1] = "exit" => i = Len(accepted)
    /\ \A f \in Files : \A i \in 1..Len(written[f]) :
           written[f][i].id[1] = "exit" => i = Len(written[f])

\* The scenario: logAll; p1 says "hello" and fails with (3, "boom"), in either
\* order; then Exit, which returns nil.
ScenarioRan ==
    /\ scenario
    /\ logAll
    /\ ExitDone
    /\ menu = [sender |-> {StrV("hello")}, failure |-> {<<3, "boom">>}]
    /\ calls["p1"] = 2
    /\ \A p \in Producers \ {"p1"} : calls[p] = 0

\* Every endpoint holds p1's two records in the order of its calls and then
\* the notifier's final line, and nothing else.
ScenarioLog ==
    \A f \in Files :
        /\ WrittenIds(f) = <<<<"p1", 1, "call">>, <<"p1", 2, "call">>, Sentinel(calls["exit"])>>
        /\ Line(written[f][3]) = <<"notifier", 0, ExitMessage>>
        /\ \A i \in 1..2 :
             Line(written[f][i]) \in {<<"p1", 0, "hello">>, <<"p1", 3, "boom">>}

\* C8 as stated: the sentinel is the last record put on noteChan and written,
\* and the scenario leaves hello, boom and the final line, in that order.
C8_AsStated ==
    SentinelLast /\ (ScenarioRan => ScenarioLog)

\* C8, amended: the sentinel is the last record put on noteChan and written,
\* and on a synchronous notifier the scenario leaves hello, boom and the
\* final line, in that order.
C8_SentinelLast ==
    SentinelLast /\ ((ScenarioRan /\ ~async) => ScenarioLog)

\* C8 happens: the scenario on a synchronous notifier, hello first.
C8_Witness ==
    /\ ScenarioRan
    /\ ~async
    /\ [i \in 1..Len(written["notify.log"]) |-> Line(written["notify.log"][i])]
         = <<<<"p1", 0, "hello">>, <<"p1", 3, "boom">>,
             <<"notifier", 0, ExitMessage>>>>

\* C9: the call of send for a record that route rejected has returned the
\* value when it is an error and nil otherwise, as for a record it accepted,
\* and the same synchronous or not.
C9_SendReturnsValue ==
    \A p \in Producers : \A r \in routes :
        (r.id = <<p, calls[p], "call">> /\ r.st = "reject")
            => ret[p] = sendRet(r.value)

\* The first call of SetCodes has returned from its loop.
SetCodesDone == safetySwitch /\ calls["cfg"] = 1 /\ pc["cfg"] = "idle"

\* The codes of the given map that are in 1 < c < 999.
GoodCodes == {c \in DOMAIN givenCodes : 1 < c /\ c < 999}

\* C10: when SetCodes, called on a notifier that is not running, returns, the
\* table holds the given entry for every code 1 < c < 999 of the map and the
\* built-in entries otherwise; every other entry is deleted from the map and
\* counted, and the call returns the error with the count, or nil for none.
C10_SetCodesRange ==
    SetCodesDone =>
        /\ notificationCodes =
             [c \in DOMAIN standardCodes \cup GoodCodes |->
                IF c \in GoodCodes THEN givenCodes[c] ELSE standardCodes[c]]
        /\ DOMAIN newCodes = GoodCodes
        /\ fails = Cardinality(DOMAIN givenCodes \ GoodCodes)
        /\ ret["cfg"] = IF fails > 0 THEN newf(4, FailedMessage(fails))
                        ELSE NoError

\* C10 happens: Run never called; a map with 0, 999 and 2: 2 is replaced, two
\* entries are counted.
C10_Witness ==
    /\ SetCodesDone
    /\ calls["run"] = 0
    /\ DOMAIN givenCodes = {0, 2, 999}
    /\ notificationCodes[2] = CustomEntry(1)
    /\ notificationCodes[0] = standardCodes[0]
    /\ fails = 2
    /\ ret["cfg"].kind = "notification"

\* A value send returns for an error.
IsError(v) == v.kind \in {"error", "notification"}

\* C11: a call of SetCodes that is not the notifier's first, or that finds the
\* notifier running, changes no entry of the code table, and what it returns
\* is an error.
C11_SecondSetCodesFails ==
    [][/\ calls["cfg"] >= 2 => notificationCodes' = notificationCodes
       /\ (calls'["cfg"] # calls["cfg"] /\ running) => pc'["cfg"] # "sc_range"
       /\ (calls["cfg"] >= 2 /\ pc["cfg"] # "idle" /\ pc'["cfg"] = "idle")
             => IsError(ret'["cfg"])]_vars

\* C12: a call of SetCodes that came after Run had set the notifier running
\* changes no entry of the code table, also when Exit has returned since.
C12_TableFixedOnceStarted ==
    [][late => notificationCodes' = notificationCodes]_vars

\* C13: the code table always holds the system codes 0, 1 and 999, with their
\* built-in severity and label.
C13_SystemCodesKept ==
    /\ {0, 1, 999} \subseteq DOMAIN notificationCodes
    /\ notificationCodes[0] = <<"MSG", "GeneralMessage">>
    /\ notificationCodes[1] = <<"ERR", "GeneralError">>
    /\ notificationCodes[999] = <<"ERR", "ShouldNeverHappen">>

\* C13 happens: SetCodes was given entries for 1 and 999 and has returned,
\* Run has started and written a record about them.
C13_Witness ==
    /\ SetCodesDone
    /\ DOMAIN givenCodes = {1, 998, 999}
    /\ notificationCodes[998] = CustomEntry(1)
    /\ started
    /\ written[Stdout] # <<>>

\* C14: halt is set only while the notifier is running, the notifier starts
\* running only when it has not been halted or closed, noteChan stays closed,
\* and whenever noteChan is closed halt is set.
C14_StateOrder ==
    [][/\ (halt' /\ ~halt) => running
       /\ (running' /\ ~running) => (~halt /\ ~chanClosed)
       /\ chanClosed => chanClosed'
       /\ chanClosed' => halt']_vars

\* C15: when log confirms a record, the record is the last entry of every
\* endpoint that takes writes; log confirms it also when endpoints fail.
C15_ConfirmAfterWrite ==
    [][\A c \in confirmed' \ confirmed :
          \A f \in Files \ fileClosed :
              /\ written[f] # <<>>
              /\ written[f][Len(written[f])].id = c]_vars

\* C15 happens: Exit's sentinel is confirmed on a notifier whose os.Stdout
\* failed every write, and is in the log file.
C15_Witness ==
    /\ confirmed # {}
    /\ written[Stdout] = <<>>
    /\ \E i \in 1..Len(written["notify.log"]) :
           written["notify.log"][i].id \in confirmed

\* noteChan takes a send: it is open and not full.
HasRoom == ~chanClosed /\ Len(noteChan) < notifierCap

\* C16: the caller of a synchronous send waits as long as its call of route
\* lasts, in particular while route is blocked on the full noteChan, and
\* the blocked route goes on as soon as noteChan has room; the caller of an
\* asynchronous send never waits, however full noteChan is.
C16_SyncBlocksAsyncReturns ==
    /\ async => \A p \in Producers : pc[p] # "send_wait"
    /\ ~async => \A r \in routes : pc[r.caller] = "send_wait"
    /\ \A r \in routes :
         (r.st = "in" /\ ~panicked) =>
            IF HasRoom THEN ENABLED RouteAccept(r)
            ELSE ~chanClosed => ~ENABLED RouteAccept(r)

\* C16 happens: a synchronous caller waits in route at the full noteChan.
C16_Witness ==
    /\ ~async
    /\ Len(noteChan) = notifierCap
    /\ \E r \in routes : r.st = "in" /\ pc[r.caller] = "send_wait"

\* C17: on an asynchronous notifier a caller can make its next call while
\* route still has its last record, and of two records of one caller that
\* route has, either can be the next one put on noteChan.
C17_AsyncEitherOrder ==
    async =>
      /\ \A p \in Producers :
           (~panicked /\ calls[p] < Budget(p) /\ \E r \in routes : r.id[1] = p)
              => ENABLED (SenderCall(p) \/ FailureCall(p))
      /\ \A r1, r2 \in routes :
           (r1.id[1] = r2.id[1] /\ r1.st = "start" /\ r2.st = "start")
              => (ENABLED RouteAccept(r1) <=> ENABLED RouteAccept(r2))

\* C17 happens: the second record of p1 is written before its first.
C17_Witness ==
    /\ async
    /\ \E i, j \in 1..Len(written["notify.log"]) :
         /\ i < j
         /\ written["notify.log"][i].id = <<"p1", 2, "call">>
         /\ written["notify.log"][j].id = <<"p1", 1, "call">>

\* C18: when Run receives a record, a string is written (to every endpoint
\* that takes writes) if logAll is set and to no endpoint otherwise, and an
\* error or a notification is written whatever logAll is.
C18_LogAllOnlyForStrings ==
    [][received' # received =>
          LET n == Head(noteChan) IN
          IF n.Value.kind = "string" /\ ~logAll
          THEN written' = written
          ELSE \A f \in Files \ fileClosed :
                  /\ Len(written'[f]) = Len(written[f]) + 1
                  /\ written'[f][Len(written'[f])].id = n.id
                  /\ written'[f][Len(written'[f])].Message = logMessage(n)]_vars

\* C18 happens: without logAll, Run has received two records of producers
\* and written only the notification.
C18_Witness ==
    /\ ~logAll
    /\ Len(received) = 2
    /\ \A i \in 1..2 : received[i][1] \in Producers
    /\ Len(written[Stdout]) = 1
    /\ written[Stdout][1].Message = "boom"

\* The records log has submitted to itself about the record id.
SelfNotes(id) ==
    Cardinality({r \in routes : r.id = <<id[1], id[2], "self">>}) +
    Cardinality({j \in 1..Len(accepted) : accepted[j] = <<id[1], id[2], "self">>})

\* A record of a producer whose value is neither a string, an error nor a
\* notification is written with code 999 and the fallback message, and log
\* has submitted `extra` records to itself about it.
UnknownValueLogged(extra) ==
    menu.sender = {OtherV} =>
        \A i \in 1..Len(received) :
            received[i][1] \in Producers =>
               /\ \E j \in 1..Len(written[Stdout]) :
                     /\ written[Stdout][j].id = received[i]
                     /\ written[Stdout][j].Code = 999
                     /\ written[Stdout][j].Message = UnknownValueMessage
               /\ SelfNotes(received[i]) = extra

SelfNoteOf(id) == <<id[1], id[2], "self">>

SelfNoteShape ==
    /\ \A r \in routes :
          r.id[3] = "self" =>
             r.sender = "notifier" /\ r.value = newf(999, UnknownCodeMessage)
    /\ \A i \in 1..Len(noteChan) :
          noteChan[i].id[3] = "self" =>
             /\ noteChan[i].Sender = "notifier"
             /\ noteChan[i].Value = newf(999, UnknownCodeMessage)

\* C20: a notification whose code the table lacks is written with code 1 and
\* its own message, and by the time it is written the consumer has submitted
\* through send exactly one record about it, from sender "notifier" with code
\* 999, which is itself written as such.
C20_UnknownCodeReported ==
    /\ SelfNoteShape
    /\ pc["run"] = "log_write" => SelfNotes(cur.id) = 1
    /\ \A f \in Files : \A j \in 1..Len(written[f]) :
          LET e == written[f][j] IN
          /\ (e.id[1] \in Producers /\ e.id[3] = "call") =>
                /\ e.Code = 1
                /\ e.Message = "nocode"
                /\ SelfNotes(e.id) = 1
          /\ e.id[3] = "self" =>
                /\ e.Sender = "notifier"
                /\ e.Code = 999
                /\ e.Message = UnknownCodeMessage

\* C20 happens: the endpoint holds p1's record with code 1 and, after it, the
\* consumer's own record about it with code 999.
C20_Witness ==
    \E i, j \in 1..Len(written[Stdout]) :
        /\ i < j
        /\ written[Stdout][i].id = <<"p1", 1, "call">>
        /\ written[Stdout][i].Code = 1
        /\ written[Stdout][j].id = <<"p1", 1, "self">>
        /\ written[Stdout][j].Code = 999

\* ------------------------------------------------------- IsCode, Failure
\* IsCode: the code of a notification is compared; whatever else err holds,
\* a nil error included, the answer is code == 1.
IsCode(code, err) ==
    IF err.kind = "notification" THEN code = err.code ELSE code = 1

\* A program whose producers fail with a negative code, with code 0 and with
\* a code of the table, and send an error and a string, while Run logs;
\* the message tells which call it was.
FailMenu ==
    [sender |-> {ErrV("oops"), StrV("hello")},
     failure |-> {<<-1, "negative">>, <<0, "zero">>, <<3, "boom">>}]

InitFail ==
    /\ menu = FailMenu
    /\ logAll = TRUE
    /\ async \in BOOLEAN
    /\ NewNotifier

NextFail == Produce \/ Enqueue \/ Consume

SpecFail == InitFail /\ [][NextFail]_vars

\* The closures of the producers that have returned.
Returned == {p \in Producers : ret[p].kind # "unset"}

\* The call whose message is m returned a notification with the code c, for
\* which IsCode answers yes, and every endpoint shows it with that code and
\* the status st.
FailureBuilt(m, c, st) ==
    /\ \A p \in Returned :
          ret[p].message = m =>
             /\ ret[p].kind = "notification"
             /\ ret[p].code = c
             /\ IsCode(c, ret[p])
             /\ \A k \in InputCodes \ {c} : ~IsCode(k, ret[p])
    /\ \A f \in Files : \A j \in 1..Len(written[f]) :
          written[f][j].Message = m =>
             written[f][j].Code = c /\ written[f][j].Status = st

\* The call whose message is m has returned and was logged.
FailureLogged(m) ==
    /\ \E p \in Returned : ret[p].message = m
    /\ \E j \in 1..Len(written[Stdout]) : written[Stdout][j].Message = m

\* C21 as stated: a Failure closure given a code below 1, zero or negative,
\* builds a notification with code 1, sends it, and returns an error for
\* which IsCode(1, err) holds.
C21_AsStated ==
    FailureBuilt("negative", 1, "GeneralError") /\ FailureBuilt("zero", 1, "GeneralError")

\* C21, amended: a Failure closure given a negative code builds a
\* notification with code 1, sends it, and returns an error for which
\* IsCode(1, err) holds.
C21_NegativeCodeIsOne == FailureBuilt("negative", 1, "GeneralError")

\* C21 happens: a call with the code -1 has returned and was logged.
C21_Witness ==
    /\ FailureLogged("negative")
    /\ \E p \in Returned : ret[p].message = "negative" /\ IsCode(1, ret[p])

\* C22: a Failure closure given the code 0 returns a notification with code
\* 0, so that IsCode(0, err) holds and IsCode(1, err) does not, and the record
\* is logged with code 0 as a GeneralMessage.
C22_ZeroCodeKept ==
    /\ FailureBuilt("zero", 0, "GeneralMessage")
    /\ \A p \in Returned : ret[p].message = "zero" => ~IsCode(1, ret[p])

\* C22 happens: a call with the code 0 has returned and was logged.
C22_Witness ==
    /\ FailureLogged("zero")
    /\ \E p \in Returned : ret[p].message = "zero" /\ IsCode(0, ret[p])

\* What C23 says IsCode answers: yes for a notification with that code, and
\* for any other error when the code is 1.
IsCodeAsStated(code, err) ==
    \/ err.kind = "notification" /\ err.code = code
    \/ err.kind = "error" /\ code = 1

\* C23: IsCode(code, err) holds exactly when err is a notification with
\* that code, or err is another error and code is 1.
C23_IsCodeExact ==
    \A p \in Returned : \A c \in InputCodes :
        IsCode(c, ret[p]) <=> IsCodeAsStated(c, ret[p])

\* C23 on the errors only: for what a closure returns that is not nil.
C23_OnErrors ==
    \A p \in Returned : \A c \in InputCodes :
        ret[p] # NoError => (IsCode(c, ret[p]) <=> IsCodeAsStated(c, ret[p]))

\* ---------------------------------------------------------- endpoint lists
\* The references a caller may give: os.Stdout, a path that opens, a path
\* that does not, and a value that is neither a string nor a *os.File.
Refs == {FileRef(Stdout), PathRef("mylog.log"), PathRef("/var/log/syslog"), OtherRef}

RefLists == UNION {[1..k -> Refs] : k \in 0..MaxRefs}

\* A program that gives NewNotifier any list of references, and whose
\* producers send while Run logs.
InitEndpoints ==
    /\ menu = [sender |-> {StrV("hello")}, failure |-> {<<3, "boom">>}]
    /\ logAll = TRUE
    /\ async \in BOOLEAN
    /\ \E refs \in RefLists : NewNotifierFor(refs, MaxCap, {})

NextEndpoints == Produce \/ Enqueue \/ Consume

SpecEndpoints == InitEndpoints /\ [][NextEndpoints]_vars

\* The references that are a string or a *os.File, and the handle each of
\* them resolves to.
Supported == {i \in 1..Len(files) : files[i].kind # "other"}
HandleOf(i) ==
    IF files[i].kind = "string" THEN openLogFile(files[i].name, i) ELSE files[i].name

\* The position of the first reference that resolves to the handle h.
FirstWith(h) ==
    CHOOSE k \in Supported :
        HandleOf(k) = h /\ \A m \in Supported : HandleOf(m) = h => k <= m

\* C24: whatever references NewNotifier was given, the endpoints hold every
\* handle the references resolve to, none of them twice, in the order in
\* which the handles first occur in the list.
C24_NoSinkTwice ==
    Len(files) > 0 =>
        /\ {endpointsPtr[i] : i \in 1..Len(endpointsPtr)} = {HandleOf(i) : i \in Supported}
        /\ \A i, j \in 1..Len(endpointsPtr) :
              /\ endpointsPtr[i] = endpointsPtr[j] => i = j
              /\ i < j => FirstWith(endpointsPtr[i]) < FirstWith(endpointsPtr[j])

\* C24 happens: os.Stdout was given after a path that does not open, which
\* stands for os.Stdout too, and the endpoints hold os.Stdout once; and a
\* record was written to it once.
C24_Witness ==
    /\ files = <<PathRef("/var/log/syslog"), FileRef(Stdout)>>
    /\ endpointsPtr = <<Stdout>>
    /\ Len(written[Stdout]) = 1

\* C25: whatever references NewNotifier was given, the endpoints hold at
\* least one entry.
C25_SomeEndpoint == Len(endpointsPtr) >= 1

\* C26: when Exit has returned nil, Close was called on every endpoint but
\* os.Stdout; and Close is never called on os.Stdout.
C26_ExitClosesFiles ==
    /\ Stdout \notin fileClosed
    /\ (pc["exit"] = "idle" /\ ret["exit"] = NoError) =>
          \A f \in Files : f # Stdout => f \in fileClosed

\* C26 happens: Exit has returned nil, the file is closed and os.Stdout,
\* which the final record was written to, is not.
C26_Witness ==
    /\ pc["exit"] = "idle"
    /\ ret["exit"] = NoError
    /\ "notify.log" \in fileClosed
    /\ Stdout \in Files \ fileClosed
    /\ written[Stdout] # <<>>

\* ---------------------------------------------------------------- correct
\* logEntry.correct: an empty field becomes "N/A", and a tab, newline or
\* other control character becomes a space.  The strings of the model that
\* it changes are "" and "a\tb".  log does not call it.
Corrected(str) ==
    CASE str = "" -> "N/A"
      [] str = "a\tb" -> "a b"
      [] OTHER -> str

correct(l) ==
    [l EXCEPT !.Sender = Corrected(@), !.Level = Corrected(@),
              !.Status = Corrected(@), !.Message = Corrected(@)]

\* A program whose producers send an empty string and a string with a tab,
\* and fail with an empty message, while Run logs.
InitEmpty ==
    /\ menu = [sender |-> {StrV(""), StrV("a\tb")}, failure |-> {<<3, "">>}]
    /\ logAll = TRUE
    /\ async \in BOOLEAN
    /\ NewNotifier

NextEmpty == Produce \/ Enqueue \/ Consume

SpecEmpty == InitEmpty /\ [][NextEmpty]_vars

\* C27: every entry the consumer has written has gone through correct: no
\* field of it is empty or holds a control character.
C27_EntriesCorrected ==
    \A f \in Files : \A j \in 1..Len(written[f]) :
        written[f][j] = correct(written[f][j])

\* ------------------------------------------------------------ missing codes
\* Run: isOK() panics when a system code is missing.
RunPanic ==
    /\ ~panicked
    /\ pc["run"] \in {"idle", "returned"}
    /\ calls["run"] < MaxRuns
    /\ ~isOK
    /\ calls' = [calls EXCEPT !["run"] = @ + 1]
    /\ panicked' = TRUE
    /\ UNCHANGED <<config, codes, noteChan, chanClosed, halt, running, opsOwner,
                   endpointsLock, fileClosed, written, routes, pc, cur, ret,
                   received, accepted, preRun, warned, confirmed>>

\* The table without the system code c.
Without(c) == [k \in DOMAIN standardCodes \ {c} |-> standardCodes[k]]

\* Code of the package assigns notifier.notificationCodes a table that lacks
\* a system code, before Run is called or while Run waits for a note.
AssignCodes ==
    /\ ~panicked
    /\ isOK
    /\ pc["run"] \in {"idle", "run_recv"}
    /\ \E c \in sysCodes : notificationCodes' = Without(c)
    /\ UNCHANGED <<config, safetySwitch, newCodes, givenCodes, ranged, fails,
                   late, noteChan, chanClosed, halt, running, opsOwner,
                   endpointsLock, fileClosed, written, routes, pc, cur, ret,
                   calls, received, accepted, preRun, warned, confirmed,
                   panicked>>

\* A program of producers and Run on a logAll notifier whose table is
\* replaced by one that lacks a system code, and which calls SetCodes after
\* that.
InitMissing ==
    /\ menu = [sender |-> {StrV("hello")}, failure |-> {<<3, "boom">>}]
    /\ logAll = TRUE
    /\ async \in BOOLEAN
    /\ NewNotifier

NextMissing ==
    \/ AssignCodes
    \/ \E p \in Producers : SenderCall(p)
    \/ Enqueue
    \/ Consume
    \/ RunPanic
    \/ ~isOK /\ SetCodesCall

SpecMissing == InitMissing /\ [][NextMissing]_vars

CodeMissing == \E c \in {0, 1, 999} : c \notin DOMAIN notificationCodes

\* C28: while a system code is missing from the table no record is written
\* and no code is changed, and a call of Run or of SetCodes, or a record that
\* log is given, ends in a panic.
C28_MissingCodePanics ==
    [][CodeMissing =>
         /\ written' = written
         /\ notificationCodes' = notificationCodes
         /\ (\/ calls'["run"] # calls["run"]
             \/ calls'["cfg"] # calls["cfg"]
             \/ received' # received) => panicked']_vars

\* C28 happens: a system code is missing and the process has panicked, in
\* Run's own check, in SetCodes', or in log's with a record taken off the
\* queue and not written.
C28_Witness ==
    /\ CodeMissing
    /\ panicked
    /\ Len(received) = 2
    /\ Len(written[Stdout]) = 1

\* A sentinel of Exit is among the records put on noteChan.
SentinelQueued == \E i \in 1..Len(accepted) : accepted[i][1] = "exit"

\* C29: from the step in which Exit sets halt until its sentinel is on
\* noteChan, Exit holds the write lock and no call of route holds the read
\* lock; a call of route that holds the read lock with its record not yet on
\* noteChan has found halt clear, and halt is still clear; so no call of
\* route puts its record on noteChan once the sentinel is there.
C29_HaltAndSentinelAtomic ==
    [][/\ pc'["exit"] = "exit_send" => (opsOwner' = "exit" /\ Readers' = {})
       /\ \A r \in routes' : r.st = "in" => ~halt'
       /\ SentinelQueued =>
             \A i \in (Len(accepted) + 1)..Len(accepted') :
                 accepted'[i][1] = "exit"]_vars

\* C29 happens: the sentinel went on noteChan after the records of two
\* calls of route, one of them made after Run had begun, and a call of route
\* that came later found halt set: its record is not on noteChan.
C29_Witness ==
    /\ Len(accepted) = 3
    /\ accepted[3] = Sentinel(calls["exit"])
    /\ accepted[2] \notin preRun
    /\ \E r \in routes : r.st = "reject" /\ r.id \notin {accepted[1], accepted[2]}

\* Run is within its receive loop: it has taken the endpoints lock and has
\* not yet found noteChan closed.
InReceiveLoop == pc["run"] \in {"run_recv", "log", "log_write", "log_confirm"}

\* C30: Run holds the endpoints lock all through its receive loop; Exit
\* closes the endpoints only with that lock free, noteChan closed and Run out
\* of its receive loop; and once Exit has closed an endpoint Run takes no
\* further record off noteChan, so nothing is written to a closed endpoint.
C30_NoWriteAfterClose ==
    [][/\ InReceiveLoop => endpointsLock = "run"
       /\ fileClosed' # fileClosed =>
             (endpointsLock = None /\ chanClosed /\ ~InReceiveLoop)
       /\ fileClosed # {} => (received' = received /\ written' = written)]_vars

\* C30 happens: Run has logged records and returned, and Exit has closed the
\* file after that and returned.
C30_Witness ==
    /\ ExitDone
    /\ pc["run"] = "returned"
    /\ "notify.log" \in fileClosed
    /\ Len(written["notify.log"]) >= 2

\* Exit is past its check of IsReady and has not returned.
InExit ==
    pc["exit"] \in {"exit_lock", "exit_send", "exit_wait", "exit_close",
                    "exit_endpoints", "exit_status"}

\* C31: noteChan is closed only when the sentinel's confirmation has been
\* received, an endpoint is closed only when noteChan is closed, running is
\* cleared only when every endpoint but os.Stdout is closed, and running is
\* set all through Exit, up to that last step.
C31_ExitOrder ==
    [][/\ (chanClosed' /\ ~chanClosed) => Sentinel(calls["exit"]) \in confirmed
       /\ fileClosed' # fileClosed => chanClosed
       /\ (running /\ ~running') =>
             (chanClosed /\ \A f \in Files : f # Stdout => f \in fileClosed)
       /\ InExit => running]_vars

\* C31 happens: Exit has gone through all its steps and returned nil.
C31_Witness ==
    /\ ExitDone
    /\ Sentinel(1) \in confirmed
    /\ chanClosed
    /\ "notify.log" \in fileClosed
    /\ ~running

\* C32: when Run takes a record with a confirmation channel off noteChan, it
\* hands it to log, whose deferred send satisfies the confirmation, whatever
\* the value and whatever logAll is.
C32_ConfirmationPending ==
    [][(received' # received /\ Head(noteChan).Confirm # None /\ ~panicked')
          => (pc'["run"] = "log_confirm" /\ cur'.Confirm = Head(noteChan).Confirm)]_vars

\* ----------------------------------------------------- concurrent Exit calls
\* A second goroutine calling Exit.
Exit2 ==
    \/ ExitCallBy("exit2")
    \/ ExitLockWaitBy("exit2")
    \/ ExitHaltBy("exit2")
    \/ ExitSendBy("exit2")
    \/ ExitCloseBy("exit2")
    \/ ExitEndpointsBy("exit2")
    \/ ExitStatusBy("exit2")
    \/ LogConfirmBy("exit2")

\* A program of producers, Run and two goroutines that call Exit, on a logAll
\* notifier.
InitExits ==
    /\ menu = [sender |-> {StrV("hello")}, failure |-> {<<3, "boom">>}]
    /\ logAll = TRUE
    /\ async \in BOOLEAN
    /\ NewNotifier

NextExits == (\E p \in Producers : SenderCall(p)) \/ Route \/ Run \/ Exit \/ Exit2

SpecExits == InitExits /\ [][NextExits]_vars

\* The sentinels put on noteChan.
SentinelsQueued ==
    {i \in 1..Len(accepted) : accepted[i][1] \in {"exit", "exit2"}}

\* C33: with Run called once and Exit called by two goroutines at any times,
\* nothing panics (no send on the closed noteChan, no second close), and one
\* call alone puts a sentinel on noteChan and shuts the notifier down.
C33_ConcurrentExits ==
    calls["run"] <= 1 => (~panicked /\ Cardinality(SentinelsQueued) <= 1)

\* C34: when noteChan is closed no call of route is about to send on it: a
\* call that takes the read lock finds halt set and takes the rejecting
\* branch.
C34_NoSendOnClosedQueue ==
    chanClosed => \A r \in routes : ~ENABLED RouteAccept(r)

\* C35: Exit never stands at one of its ops.Lock() calls behind a call of
\* route that took the rejecting branch and still holds the read lock.
C35_RejectedRouteUnlocks ==
    pc["exit"] \in {"exit_lock", "exit_status"} =>
        \A r \in Readers : r.st # "reject"

Notifiers == {"no", "other", "later"}
tableOf == [n \in Notifiers |-> "standardCodes"]
maps == [standardCodes |-> notificationCodes]
CodeTable(n) == maps[tableOf[n]]
packageCodes == maps["standardCodes"]

\* C38: SetCodes on the notifier changes its own table only: the table of
\* every other notifier, made before or after, and the package's built-in
\* table hold the built-in entries.
C38_TablesApart ==
    /\ \A n \in Notifiers \ {"no"} : CodeTable(n) = standardCodes
    /\ packageCodes = standardCodes

\* C39: no step writes the code table while running is true: SetCodes'
\* test of running and its writes are not separated by a start of Run.
C39_NoWriteWhileRunning ==
    [][notificationCodes' # notificationCodes => ~running]_vars

\* C40: SetCodes, called before Run on a synchronous notifier, is never left
\* waiting in noteToSelf for room in noteChan, which nothing empties before
\* Run.
C40_SetCodesNotBlocked ==
    (pc["cfg"] = "send_wait" /\ calls["run"] = 0) => Len(noteChan) < notifierCap

====
